---- MODULE Spec2Model ----
(***************************************************************************)
(* Custom-field subsystem of custom-data-keeper: the Express route         *)
(* handlers for /api/custom-fields and /api/customers over the MySQL       *)
(* schema of server/database.sql.                                          *)
(*                                                                         *)
(* The repository holds several versions of each route file.  A running    *)
(* server mounts one custom-fields router and one customers router; the    *)
(* variable routes says which, and is fixed by Init.  Requests are handled *)
(* one at a time: every action is one whole request handler, and the       *)
(* client sends the next request when it has the response to the last.     *)
(* Spec is the server with the customers router of part_001 lines 1-273,   *)
(* SpecPool the server with the later customers router, which adds         *)
(* POST /api/customers/:id.                                                *)
(*                                                                         *)
(* Storage.  The tables are sets (bags) of rows.  A handler works on a     *)
(* session record S = [db, tx, open]: db is the committed database, tx is  *)
(* the list of statements pending in the transaction the handler opened,   *)
(* open says whether that transaction is open.  A statement sent with      *)
(* connection.query runs on the connection that holds the transaction.  A  *)
(* statement sent with pool.query runs on whichever connection the pool    *)
(* hands out: the one holding the transaction, or another one in           *)
(* autocommit mode; the handler's action draws that choice per statement.  *)
(***************************************************************************)
EXTENDS Integers, Sequences, FiniteSets, Bags, TLC

\* ------------------------------------------------------------------ bounds
\* Highest id AUTO_INCREMENT hands out for custom_fields (the seeds take 1..3).
MaxFieldId == 4
\* Highest id AUTO_INCREMENT hands out for customers.
MaxCustomerId == 1
\* Most rows customer_field_values holds after POST /api/customers/:id.
MaxRows == 3

\* ------------------------------------------------------------ SQL values
\* The options column: SQL NULL, or the JSON text JSON.stringify produced.
SqlNull == [kind |-> "null", items |-> <<>>]

\* JSON.parse(value): the argument is first converted to a string.  A string
\* holding JSON.stringify(list) parses to the list.  An array converts to its
\* elements joined by commas, which is JSON text only for a single element
\* that is a literal; every other array makes JSON.parse throw.
JsonParse(value) ==
  LET
      \* One-element lists whose element, written out, is itself JSON text.
      JsonLiterals == {"true", "false", "null", "0", "1"}
  IN
  IF value.kind = "string"
  THEN [ok |-> TRUE, value |-> [kind |-> "array", items |-> value.items]]
  ELSE IF Len(value.items) = 1 /\ value.items[1] \in JsonLiterals
       THEN [ok |-> TRUE, value |-> [kind |-> "literal", items |-> value.items]]
  ELSE [ok |-> FALSE, value |-> [kind |-> "null", items |-> <<>>]]

\* type ENUM('text', 'number', 'date', 'select') NOT NULL
TypeEnum == {"text", "number", "date", "select"}

\* The rows database.sql inserts into custom_fields.
SeedFields ==
  { [id |-> 1, name |-> "Notes", type |-> "text", options |-> SqlNull],
    [id |-> 2, name |-> "Customer Type", type |-> "select",
     options |-> [kind |-> "jsonArray", items |-> <<"Regular", "VIP", "Corporate">>]],
    [id |-> 3, name |-> "Annual Revenue", type |-> "number", options |-> SqlNull] }

\* The database after database.sql has run: the seeded definitions, no
\* customers, no values, and no custom_<id> column on customers.
InitialDb ==
  [ cf |-> SeedFields, cu |-> {}, cv |-> EmptyBag, co |-> {} ]

FieldIds(db) == { f.id : f \in db.cf }
CustomerIds(db) == { c.id : c \in db.cu }
ColumnIds(db) == { c.id : c \in db.co }

\* ------------------------------------------------------------ statements
\* A statement is a record [k |-> kind, ...]; Exec(db, st) is its effect on a
\* database: [ok |-> it did not raise, db |-> the database after it,
\* n |-> affectedRows].

Done(db, n) == [ok |-> TRUE, db |-> db, n |-> n]
Raise(db) == [ok |-> FALSE, db |-> db, n |-> 0]

\* The rows of a bag that are in the set keep, with their multiplicities.
KeepRows(bag, keep) ==
  [ r \in (DOMAIN bag) \cap keep |-> bag[r] ]

RECURSIVE RowsToBag(_)
RowsToBag(rows) ==
  IF rows = <<>> THEN EmptyBag
  ELSE SetToBag({Head(rows)}) (+) RowsToBag(Tail(rows))

\* DELETE FROM customer_field_values WHERE customer_id = ? LIMIT 1: one row of
\* the customer goes at each application.
DeleteOneValueOfCustomer(db, id) ==
  LET rows == { r \in DOMAIN db.cv : r.customer_id = id }
      row == CHOOSE r \in rows : TRUE
  IN  IF rows = {} THEN Done(db, 0)
      ELSE Done([db EXCEPT !.cv = @ (-) SetToBag({row})], 1)

\* DELETE FROM customer_field_values without its WHERE clause: every row goes.
DeleteAllValues(db, id) ==
  Done([db EXCEPT !.cv = EmptyBag], 0)

\* DELETE FROM customer_field_values WHERE customer_id = ?
DeleteValuesOfCustomer(db, id) ==
  Done([db EXCEPT !.cv = KeepRows(@, { r \in DOMAIN @ : r.customer_id # id })], 0)

\* DELETE FROM customer_field_values WHERE field_id = ?
DeleteValuesOfField(db, id) ==
  Done([db EXCEPT !.cv = KeepRows(@, { r \in DOMAIN @ : r.field_id # id })], 0)

IsDDL(st) == st.k \in {"addColumn", "dropColumn", "modifyColumn"}

Exec(db, st) ==
  LET
      \* INSERT INTO custom_fields (name, type, options): name NOT NULL, type in the ENUM.
      InsertField(row) ==
        IF row.type \notin TypeEnum THEN Raise(db)
        ELSE Done([db EXCEPT !.cf = @ \cup {row}], 1)
      \* DELETE FROM custom_fields WHERE id = ?  with customer_field_values.field_id
      \* REFERENCES custom_fields(id) ON DELETE CASCADE.
      DeleteField(id) ==
        Done([db EXCEPT !.cf = { f \in @ : f.id # id },
                        !.cv = KeepRows(@, { r \in DOMAIN @ : r.field_id # id })],
             Cardinality({ f \in db.cf : f.id = id }))
      \* UPDATE custom_fields SET name = ?, type = ?, options = ? WHERE id = ?
      UpdateField(row) ==
        IF row.type \notin TypeEnum THEN Raise(db)
        ELSE Done([db EXCEPT !.cf = { IF f.id = row.id THEN row ELSE f : f \in @ }],
                  Cardinality({ f \in db.cf : f.id = row.id }))
      \* INSERT INTO customers (name, dob, ...)
      InsertCustomer(row) ==
        Done([db EXCEPT !.cu = @ \cup {row}], 1)
      \* UPDATE customers SET name = ?, dob = ?, ... WHERE id = ?
      UpdateCustomer(row) ==
        Done([db EXCEPT !.cu = { IF c.id = row.id THEN row ELSE c : c \in @ }],
             Cardinality({ c \in db.cu : c.id = row.id }))
      \* DELETE FROM customers WHERE id = ?  with customer_field_values.customer_id
      \* REFERENCES customers(id) ON DELETE CASCADE.
      DeleteCustomer(id) ==
        Done([db EXCEPT !.cu = { c \in @ : c.id # id },
                        !.cv = KeepRows(@, { r \in DOMAIN @ : r.customer_id # id })],
             Cardinality({ c \in db.cu : c.id = id }))
      \* INSERT INTO customer_field_values (customer_id, field_id, value) VALUES ?
      \* Both foreign keys are checked; one failing row fails the statement.  The
      \* table has no key over (customer_id, field_id): its key is the row id.
      InsertValues(rows) ==
        IF \A i \in 1..Len(rows) :
              /\ rows[i].customer_id \in CustomerIds(db)
              /\ rows[i].field_id \in FieldIds(db)
        THEN Done([db EXCEPT !.cv = @ (+) RowsToBag(rows)], Len(rows))
        ELSE Raise(db)
      \* ALTER TABLE customers ADD COLUMN custom_<id> <type>
      AddColumn(id, sqlType) ==
        IF id \in ColumnIds(db) THEN Raise(db)
        ELSE Done([db EXCEPT !.co = @ \cup {[id |-> id, sqlType |-> sqlType]}], 0)
      \* ALTER TABLE customers DROP COLUMN custom_<id>
      DropColumn(id) ==
        IF id \notin ColumnIds(db) THEN Raise(db)
        ELSE Done([db EXCEPT !.co = { c \in @ : c.id # id }], 0)
      \* ALTER TABLE customers MODIFY COLUMN custom_<id> <type>
      ModifyColumn(id, sqlType) ==
        IF id \notin ColumnIds(db) THEN Raise(db)
        ELSE Done([db EXCEPT !.co = { IF c.id = id THEN [id |-> id, sqlType |-> sqlType]
                                      ELSE c : c \in @ }], 0)
  IN
  CASE st.k = "insertField" -> InsertField(st.row)
    [] st.k = "deleteField" -> DeleteField(st.id)
    [] st.k = "updateField" -> UpdateField(st.row)
    [] st.k = "insertCustomer" -> InsertCustomer(st.row)
    [] st.k = "updateCustomer" -> UpdateCustomer(st.row)
    [] st.k = "deleteCustomer" -> DeleteCustomer(st.id)
    [] st.k = "deleteValuesOfCustomer" -> DeleteValuesOfCustomer(db, st.id)
    [] st.k = "deleteValuesOfField" -> DeleteValuesOfField(db, st.id)
    [] st.k = "insertValues" -> InsertValues(st.rows)
    [] st.k = "addColumn" ->
         IF st.fault THEN Raise(db) ELSE AddColumn(st.id, st.sqlType)
    [] st.k = "dropColumn" -> DropColumn(st.id)
    [] st.k = "modifyColumn" -> ModifyColumn(st.id, st.sqlType)
    [] st.k = "select" -> Done(db, 0)

\* -------------------------------------------------------------- sessions
\* What a handler holds while it runs: the committed database, the statements
\* pending in the transaction it opened, and whether that transaction is open.
Session(db) == [db |-> db, tx |-> <<>>, open |-> FALSE]

\* The database as the connection holding the transaction sees it: the
\* committed rows with the pending statements applied.
RECURSIVE ApplyAll(_, _)
ApplyAll(db, sts) ==
  IF sts = <<>> THEN db
  ELSE ApplyAll(Exec(db, Head(sts)).db, Tail(sts))

View(S) == ApplyAll(S.db, S.tx)

\* START TRANSACTION / connection.beginTransaction()
Begin(S) == [S EXCEPT !.tx = <<>>, !.open = TRUE]

\* One statement.  onTx: it runs on the connection that holds the open
\* transaction (always so for connection.query; the pool's choice for
\* pool.query).  There its effect stays pending until COMMIT, except that a DDL
\* statement (ALTER TABLE) first commits the open transaction, as MySQL does for
\* every DDL statement, and is itself never rolled back.  On any other
\* connection the statement runs in autocommit mode.
Query(S, st, onTx) ==
  IF onTx /\ S.open
  THEN IF IsDDL(st)
       THEN LET r == Exec(View(S), st)
            IN  [ok |-> r.ok, n |-> r.n,
                 S |-> [db |-> r.db, tx |-> <<>>, open |-> FALSE]]
       ELSE LET r == Exec(View(S), st)
            IN  [ok |-> r.ok, n |-> r.n,
                 S |-> IF r.ok THEN [S EXCEPT !.tx = Append(@, st)] ELSE S]
  ELSE LET r == Exec(S.db, st)
       IN  [ok |-> r.ok, n |-> r.n, S |-> [S EXCEPT !.db = r.db]]

\* SELECT * FROM custom_fields WHERE id = ?  as the connection it runs on sees it.
SelectField(S, id, onTx) ==
  LET db == IF onTx /\ S.open THEN View(S) ELSE S.db
  IN  { f \in db.cf : f.id = id }

\* COMMIT and ROLLBACK end the transaction of the connection they run on; on a
\* connection without one they do nothing.
Commit(S, onTx) ==
  IF onTx /\ S.open THEN [db |-> View(S), tx |-> <<>>, open |-> FALSE] ELSE S

Rollback(S, onTx) ==
  IF onTx /\ S.open THEN [S EXCEPT !.tx = <<>>, !.open = FALSE] ELSE S

\* A handler that returns with its transaction still open (its COMMIT or
\* ROLLBACK went to another connection) leaves the pending statements on a
\* pooled connection.  They are committed by the next START TRANSACTION, COMMIT
\* or DDL that reaches that connection and discarded by the next ROLLBACK or
\* when the connection ends; requests being handled one at a time here, that
\* outcome is drawn when the handler returns.
Settle(S, commitLeft) ==
  IF S.open THEN (IF commitLeft THEN Commit(S, TRUE) ELSE Rollback(S, TRUE)) ELSE S

\* ------------------------------------------------------ request results
\* What a handler returns: the session it ends with, the HTTP status it sent,
\* the id the request was about (the insertId of a create), and whether it
\* consumed an AUTO_INCREMENT id.
Result(S, status, id, used) == [S |-> S, status |-> status, id |-> id, used |-> used]

\* !name || !type : an empty string is falsy.
Falsy(str) == str = ""

\* let dataType = 'TEXT'; if (type === 'number') ... 'DATE' ... 'BOOLEAN'
ColumnType(type) ==
  IF type = "number" THEN "DECIMAL(10,2)"
  ELSE IF type = "date" THEN "DATE"
  ELSE IF type = "boolean" THEN "BOOLEAN"
  ELSE "TEXT"

FieldRow(id, body) ==
  LET
      \* options ? JSON.stringify(options) : null.  An array (also an empty one) is
      \* truthy and becomes the JSON text of an array.  A submitted string is kept as
      \* [kind |-> "string", items |-> list]: the text JSON.stringify(list), which is
      \* never empty; it becomes the JSON text of a string.
      OptionsParam(options) ==
        IF options.kind = "array" THEN [kind |-> "jsonArray", items |-> options.items]
        ELSE IF options.kind = "string"
             THEN [kind |-> "jsonString", items |-> options.items]
        ELSE SqlNull
  IN
  [id |-> id, name |-> body.name, type |-> body.type,
   options |-> OptionsParam(body.options)]

\* ---------------------------------------- routes/customFields.js (named)

\* ------------------------------------------------- part_004 (unnamed)

\* --------------------------------------- part_002, lines 277-397 (unnamed)

\* DELETE: START TRANSACTION, DELETE the field's values, DELETE the field,
\* ROLLBACK and 404 when no row was affected, else COMMIT; all through pool.query.
\* (RemoveEavTxUnchecked: the same handler without the affectedRows test.)
RemoveEavTxUnchecked(db, id, c) ==
  LET S0 == Begin(Session(db))
      q1 == Query(S0, [k |-> "deleteValuesOfField", id |-> id], c[1])
      q2 == Query(q1.S, [k |-> "deleteField", id |-> id], c[2])
  IN  Result(Commit(q2.S, c[3]), 200, id, FALSE)

RemoveEavTx(db, id, c) ==
  LET S0 == Begin(Session(db))
      q1 == Query(S0, [k |-> "deleteValuesOfField", id |-> id], c[1])
      q2 == Query(q1.S, [k |-> "deleteField", id |-> id], c[2])
  IN  IF q2.n = 0 THEN Result(Rollback(q2.S, c[3]), 404, id, FALSE)
      ELSE Result(Commit(q2.S, c[3]), 200, id, FALSE)

\* ------------------------------------------------- part_003 (unnamed)

\* ------------------------------------------------------- request bodies
\* A submitted custom-field id is a string, kept as its characters.
Digits == <<"0", "1", "2", "3", "4", "5", "6", "7", "8", "9">>
IsDigit(ch) == \E d \in 1..10 : Digits[d] = ch

NaN == -1

\* parseInt(str, 10): the value of the longest prefix of digits, NaN when the
\* string does not start with a digit.
RECURSIVE ParseDigits(_, _)
ParseDigits(str, acc) ==
  LET DigitValue(ch) == (CHOOSE d \in 1..10 : Digits[d] = ch) - 1
  IN
  IF str = <<>> \/ ~IsDigit(Head(str)) THEN acc
  ELSE ParseDigits(Tail(str), acc * 10 + DigitValue(Head(str)))

ParseInt(str) ==
  IF str = <<>> \/ ~IsDigit(Head(str)) THEN NaN ELSE ParseDigits(str, 0)

\* Number.prototype.toString() of a non-negative integer.
RECURSIVE NumberToString(_)
NumberToString(n) ==
  IF n < 10 THEN <<Digits[n + 1]>>
  ELSE NumberToString(n \div 10) \o <<Digits[(n % 10) + 1]>>

\* customFields.filter(field => field && field.id && !isNaN(parseInt(field.id, 10)))
ValidEntry(e) == e.id # <<>> /\ ParseInt(e.id) # NaN

\* .map(field => [customerId, parseInt(field.id, 10), field.value])
ValidFieldValues(customerId, customFields) ==
  LET kept == SelectSeq(customFields, ValidEntry)
  IN  [ i \in 1..Len(kept) |->
          [customer_id |-> customerId, field_id |-> ParseInt(kept[i].id),
           value |-> kept[i].value] ]

CustomerRow(id, base) ==
  LET
      \* new Date(dob), and toISOString().split('T')[0] when the date is valid:
      \* the calendar date in UTC; null for a missing or unparseable dob.
      FormatDob(dob) ==
        IF dob.kind = "iso" THEN dob.utcDate ELSE "NULL"
  IN
  [id |-> id, name |-> base.name, dob |-> FormatDob(base.dob)]

\* ------------------------------------- part_001, lines 1-273 (unnamed)
\* POST /api/customers: on one connection beginTransaction, INSERT the
\* customer, INSERT the filtered values when there are any, commit; on any
\* error rollback and 500.
\* (CreateCustomerNoRollback: the same handler whose catch block commits.)
CreateCustomerNoRollback(db, id, base, customFields) ==
  LET S0 == Begin(Session(db))
      q1 == Query(S0, [k |-> "insertCustomer", row |-> CustomerRow(id, base)], TRUE)
      validFieldValues == ValidFieldValues(id, customFields)
      q2 == IF Len(customFields) > 0 /\ Len(validFieldValues) > 0
            THEN Query(q1.S, [k |-> "insertValues", rows |-> validFieldValues], TRUE)
            ELSE [ok |-> TRUE, n |-> 0, S |-> q1.S]
  IN  IF ~q1.ok THEN Result(Commit(q1.S, TRUE), 500, id, FALSE)
      ELSE IF ~q2.ok THEN Result(Commit(q2.S, TRUE), 500, id, TRUE)
      ELSE Result(Commit(q2.S, TRUE), 201, id, TRUE)

CreateCustomer(db, id, base, customFields) ==
  LET S0 == Begin(Session(db))
      q1 == Query(S0, [k |-> "insertCustomer", row |-> CustomerRow(id, base)], TRUE)
      validFieldValues == ValidFieldValues(id, customFields)
      q2 == IF Len(customFields) > 0 /\ Len(validFieldValues) > 0
            THEN Query(q1.S, [k |-> "insertValues", rows |-> validFieldValues], TRUE)
            ELSE [ok |-> TRUE, n |-> 0, S |-> q1.S]
  IN  IF ~q1.ok THEN Result(Rollback(q1.S, TRUE), 500, id, FALSE)
      ELSE IF ~q2.ok THEN Result(Rollback(q2.S, TRUE), 500, id, TRUE)
      ELSE Result(Commit(q2.S, TRUE), 201, id, TRUE)

\* PUT /api/customers/:id: on one connection beginTransaction, UPDATE the
\* customer, DELETE its values, INSERT the filtered values when there are any,
\* commit; on any error rollback and 500.  The UPDATE's affectedRows is not read.
\* (PutCustomerMerge: the same handler without the DELETE.)
PutCustomerMerge(db, id, base, customFields) ==
  LET S0 == Begin(Session(db))
      q1 == Query(S0, [k |-> "updateCustomer", row |-> CustomerRow(id, base)], TRUE)
      validFieldValues == ValidFieldValues(id, customFields)
      q3 == IF Len(customFields) > 0 /\ Len(validFieldValues) > 0
            THEN Query(q1.S, [k |-> "insertValues", rows |-> validFieldValues], TRUE)
            ELSE [ok |-> TRUE, n |-> 0, S |-> q1.S]
  IN  IF ~q1.ok THEN Result(Rollback(q1.S, TRUE), 500, id, FALSE)
      ELSE IF ~q3.ok THEN Result(Rollback(q3.S, TRUE), 500, id, FALSE)
      ELSE Result(Commit(q3.S, TRUE), 200, id, FALSE)

PutCustomer(db, id, base, customFields) ==
  LET S0 == Begin(Session(db))
      q1 == Query(S0, [k |-> "updateCustomer", row |-> CustomerRow(id, base)], TRUE)
      q2 == Query(q1.S, [k |-> "deleteValuesOfCustomer", id |-> id], TRUE)
      validFieldValues == ValidFieldValues(id, customFields)
      q3 == IF Len(customFields) > 0 /\ Len(validFieldValues) > 0
            THEN Query(q2.S, [k |-> "insertValues", rows |-> validFieldValues], TRUE)
            ELSE [ok |-> TRUE, n |-> 0, S |-> q2.S]
  IN  IF ~q1.ok THEN Result(Rollback(q1.S, TRUE), 500, id, FALSE)
      ELSE IF ~q2.ok THEN Result(Rollback(q2.S, TRUE), 500, id, FALSE)
      ELSE IF ~q3.ok THEN Result(Rollback(q3.S, TRUE), 500, id, FALSE)
      ELSE Result(Commit(q3.S, TRUE), 200, id, FALSE)

\* DELETE /api/customers/:id: on one connection beginTransaction, DELETE the
\* values, DELETE the customer, commit, 204.
RemoveCustomer(db, id) ==
  LET S0 == Begin(Session(db))
      q1 == Query(S0, [k |-> "deleteValuesOfCustomer", id |-> id], TRUE)
      q2 == Query(q1.S, [k |-> "deleteCustomer", id |-> id], TRUE)
  IN  Result(Commit(q2.S, TRUE), 204, id, FALSE)

\* The number of rows of a table among `rows`, duplicates counted.
RECURSIVE CountOf(_, _)
CountOf(bag, rows) ==
  IF rows = {} THEN 0
  ELSE LET r == CHOOSE x \in rows : TRUE
       IN  bag[r] + CountOf(bag, rows \ {r})

\* One result row of the join of a stored value with its definition.
JoinedEntry(db, r) ==
  LET cf == CHOOSE f \in db.cf : f.id = r.field_id
  IN  [id |-> cf.id, name |-> cf.name, type |-> cf.type, value |-> r.value]

\* The result rows of the join over the stored values `rows`.
Joined(db, rows) ==
  [ e \in { JoinedEntry(db, r) : r \in rows } |->
      CountOf(db.cv, { r \in rows : JoinedEntry(db, r) = e }) ]

\* SELECT cf.id, cf.name, cf.type, cfv.value FROM customer_field_values cfv
\* JOIN custom_fields cf ON cfv.field_id = cf.id WHERE cfv.customer_id = ?
JoinedValues(db, id) ==
  Joined(db, { r \in DOMAIN db.cv :
                 r.customer_id = id /\ r.field_id \in FieldIds(db) })

\* GET /api/customers/:id: the customer row and, joined with custom_fields, one
\* entry per stored value; 404 when there is no such customer.
NoRow == [id |-> 0, name |-> "", dob |-> "NULL"]

GetCustomer(db, id) ==
  IF id \notin CustomerIds(db)
  THEN [status |-> 404, row |-> NoRow, customFields |-> EmptyBag]
  ELSE [status |-> 200,
        row |-> CHOOSE c \in db.cu : c.id = id,
        customFields |-> JoinedValues(db, id)]

\* GET /api/customers/:id as the router in use answers it.
GetCustomerVia(db, router, id) ==
  LET
      \* The entry router.get('/:id') of part_002 lines 59-87 builds from a result
      \* row: name and value, no id and no type.
      NameValueOnly(e) == [e EXCEPT !.id = 0, !.type = "undefined"]
  IN
  LET r == GetCustomer(db, id)
      entries == { NameValueOnly(e) : e \in DOMAIN r.customFields }
  IN  IF router = "part_002"
      THEN [r EXCEPT !.customFields =
              [ x \in entries |->
                  CountOf(r.customFields,
                          { e \in DOMAIN r.customFields : NameValueOnly(e) = x }) ]]
      ELSE r

\* GET /api/customers, as far as customer id is concerned: mysql2 hands the
\* JSON column over as an object, which JSON.parse (part_001 line 30) turns
\* into the text "[object Object]" and rejects, while formatCustomFields
\* (part_002 lines 7-23) takes the object as it is.
ListCustomers(db, router, id, custom_fields_json) ==
  LET
      \* formatCustomFields: Object.entries(parsed).map(([name, value]) => ...).
      formatCustomFields(customFieldsData) ==
        SetToBag({ [id |-> 0, name |-> p.name, type |-> "undefined", value |-> p.value] :
                   p \in customFieldsData })
  IN
  IF router = "part_001" /\ db.cu # {}
  THEN [status |-> 500, row |-> NoRow, customFields |-> EmptyBag]
  ELSE IF id \notin CustomerIds(db)
  THEN [status |-> 200, row |-> NoRow, customFields |-> EmptyBag]
  ELSE [status |-> 200,
        row |-> CHOOSE c \in db.cu : c.id = id,
        customFields |-> formatCustomFields(custom_fields_json)]

\* GET /api/custom-fields
ListFields(db) == db.cf

\* The response of GET /api/custom-fields.  routes/customFields.js, part_003
\* and part_004 send the rows as mysql2 returns them.  part_002 sends
\* options: field.options ? JSON.parse(field.options) : undefined, and answers
\* 500 when one JSON.parse throws.
ListResponse(db, router) ==
  LET
      \* What mysql2 hands to a handler for a value of the JSON column options: the
      \* parsed JSON value (an array, a string, or null).
      ColumnValue(options) ==
        IF options.kind = "jsonArray" THEN [kind |-> "array", items |-> options.items]
        ELSE IF options.kind = "jsonString" THEN [kind |-> "string", items |-> options.items]
        ELSE [kind |-> "null", items |-> <<>>]
  IN
  IF router = "part_002"
  THEN IF \E f \in ListFields(db) :
            f.options.kind # "null" /\ ~JsonParse(ColumnValue(f.options)).ok
       THEN [status |-> 500, fields |-> {}]
       ELSE [status |-> 200,
             fields |-> { [id |-> f.id, name |-> f.name, type |-> f.type,
                           options |-> IF f.options.kind = "null"
                                       THEN [kind |-> "undefined", items |-> <<>>]
                                       ELSE JsonParse(ColumnValue(f.options)).value] :
                          f \in ListFields(db) }]
  ELSE [status |-> 200,
        fields |-> { [id |-> f.id, name |-> f.name, type |-> f.type,
                      options |-> ColumnValue(f.options)] : f \in ListFields(db) }]

\* The body a POST /api/custom-fields carries: the caller's, or what
\* customFieldService.create makes of it.
SentBody(op, body) ==
  LET
      \* customFieldService.create: a 'select' body with an array of options is
      \* sent with options replaced by JSON.stringify(options).
      ProcessedData(fieldData) ==
        IF fieldData.type = "select" /\ fieldData.options.kind = "array"
        THEN [fieldData EXCEPT !.options = [kind |-> "string", items |-> @.items]]
        ELSE fieldData
  IN
  IF op = "clientDefine" THEN ProcessedData(body) ELSE body

\* ----------------------------------- part_001, lines 275-324 (unnamed)
\* A field_id given to MySQL as a string is stored only when it is a number;
\* strict mode rejects any other string for an INT column.
AllDigits(str) == str # <<>> /\ \A i \in 1..Len(str) : IsDigit(str[i])

\* The INSERTs of Object.entries(customFields), all issued before any is
\* awaited (Promise.all): each runs on a connection of its own, so at most one
\* of them, the k-th, runs on the connection holding the transaction.
RECURSIVE PoolInserts(_, _, _, _, _)
PoolInserts(S, id, entries, i, k) ==
  IF i > Len(entries) THEN [S |-> S, ok |-> TRUE]
  ELSE
    LET e == entries[i]
        q == IF AllDigits(e.id)
             THEN Query(S, [k |-> "insertValues",
                            rows |-> << [customer_id |-> id, field_id |-> ParseInt(e.id),
                                         value |-> e.value] >>], i = k)
             ELSE [ok |-> FALSE, n |-> 0, S |-> S]
        rest == PoolInserts(q.S, id, entries, i + 1, k)
    IN  [S |-> rest.S, ok |-> q.ok /\ rest.ok]

\* ------------------------------------------- src/services/api.ts (client)
\* customerService.create: GET /custom-fields, keep the entries whose id is the
\* id of a listed field, POST /customers with them.
ClientFilter(db, customFields) ==
  LET availableCustomFields == { NumberToString(f.id) : f \in ListFields(db) }
      Listed(field) == field.id # <<>> /\ field.id \in availableCustomFields
  IN  SelectSeq(customFields, Listed)

\* ------------------------------------------------------------ the system
VARIABLES
  custom_fields,          \* rows of table custom_fields
  customers,              \* rows of table customers
  customer_field_values,  \* rows of table customer_field_values (a bag)
  columns,                \* the custom_<id> columns of table customers
  nextFieldId,            \* AUTO_INCREMENT of custom_fields
  nextCustomerId,         \* AUTO_INCREMENT of customers
  routes,                 \* the versions of the two route files the server mounts
  last,                   \* the request being answered and its response
  requests,               \* the field requests being handled step by step
  pool,                   \* the pooled connections: open transaction, busy or not
  created_at              \* customers.created_at by customer id, in seconds

vars == << custom_fields, customers, customer_field_values, columns,
           nextFieldId, nextCustomerId, routes, last, requests, pool,
           created_at >>

Db == [cf |-> custom_fields, cu |-> customers, cv |-> customer_field_values,
       co |-> columns]

\* The server with the later customers router (part_001 from line 275, which
\* adds POST /:id) beside the custom-fields router of part_002.
PoolDeployment == [fields |-> "part_002", customers |-> "part_001b"]

\* Request inputs.
NoOptions == [kind |-> "absent", items |-> <<>>]
FieldBodies ==
  { [name |-> "Tier", type |-> "select",
     options |-> [kind |-> "array", items |-> <<"Regular", "VIP">>]],
    [name |-> "Notes", type |-> "number", options |-> NoOptions],
    [name |-> "Active", type |-> "boolean", options |-> NoOptions],
    [name |-> "", type |-> "text", options |-> NoOptions] }

\* The bodies sent with POST /api/custom-fields in SpecFields: those of
\* FieldBodies, the remaining types, an unrecognized type, and 'select' with
\* options absent or empty.
DefineBodies ==
  FieldBodies \cup
  { [name |-> "Label", type |-> "text", options |-> NoOptions],
    [name |-> "Born", type |-> "date", options |-> NoOptions],
    [name |-> "Shade", type |-> "color", options |-> NoOptions],
    [name |-> "Plan", type |-> "select", options |-> NoOptions],
    [name |-> "Plan", type |-> "select",
     options |-> [kind |-> "array", items |-> <<>>]] }

\* The bodies sent with PUT /api/custom-fields/:id.
UpdateBodies ==
  { body \in FieldBodies : body.name \in {"Notes", "Active", ""} }

\* Field ids named in the path of DELETE and PUT /api/custom-fields/:id: a
\* seeded field, the first defined one, and an id no definition ever has.
FieldTargets == {2, 4, 9}

NoDob == [kind |-> "none", utcDate |-> "NULL"]
BaseInputs ==
  { [name |-> "Ann", dob |-> NoDob],
    [name |-> "Bob", dob |-> [kind |-> "iso", utcDate |-> "1990-05-17"]] }

\* The base attributes sent in SpecCustomers: those of BaseInputs and one with
\* a dob that new Date() cannot parse.
WideBases ==
  BaseInputs \cup { [name |-> "Cy", dob |-> [kind |-> "invalid", utcDate |-> "NULL"]] }

\* What a request other than a get has fetched.
NotFetched == [row |-> NoRow, customFields |-> EmptyBag, order |-> <<>>]

\* A request that carries no base attributes.
NoBase == [name |-> "", dob |-> NoDob]

\* Customer ids named in the path of /api/customers/:id: the first customer
\* and an id no customer ever has.
CustomerTargets == {1, MaxCustomerId + 1}

\* SpecCustomers admits one customer more than Spec, and names every id up to
\* one no customer ever has.
MoreCustomers == MaxCustomerId + 1
WideTargets == 1..(MoreCustomers + 1)

\* Submitted customFields lists.
Entry(id, value) == [id |-> id, value |-> value]
Submissions ==
  { <<>>,                                                \* nothing submitted
    << Entry(<<"2">>, "a") >>,                           \* a seeded field
    << Entry(<<"2">>, "a"), Entry(<<"2">>, "b") >>,      \* the same field twice
    << Entry(<<"2">>, "b"), Entry(<<"4">>, "a") >>,      \* the first defined field
    << Entry(<<"2">>, "a"), Entry(<<"9">>, "b") >>,      \* a numeric id no definition has
    << Entry(<<"x">>, "a"), Entry(<<>>, "a"),
       Entry(<<"2", "x">>, "b") >> }     \* no number; an empty id; a numeric prefix

\* The submissions of SpecCustomers: those of Submissions and one whose value
\* is an option of the seeded select field.
WideSubmissions == Submissions \cup { << Entry(<<"2">>, "VIP") >> }

Choices(n) == [1..n -> BOOLEAN]

\* A request that carries no field definition.
NoBody == [name |-> "", type |-> "", options |-> NoOptions]

\* Requests handled at the same time, and the connections of the pool they
\* share (mysql.createPool with connectionLimit 10; two are enough for two
\* requests).
MaxRequests == 2
MaxConnections == 2
Slots == 1..MaxRequests
Connections == 1..MaxConnections

\* One request at a time, handled step by step, its ROLLBACK possibly
\* rejected.  Node resumes a handler whose awaited statement has settled, so
\* a step that stays possible is taken.
FirstSlot == {1}

\* The most statements a transaction left open on a pooled connection holds.
MaxPending == 2

\* A slot with no request in it; a connection as the pool creates it.
NoHandler == [op |-> "none", pc |-> "idle", id |-> 0, body |-> NoBody, status |-> 0,
              conn |-> 0, customFields |-> <<>>]
FreshConnection == [tx |-> <<>>, open |-> FALSE, busy |-> FALSE, owner |-> 0]

NoRequest == [op |-> "none", status |-> 0, id |-> 0, customFields |-> <<>>,
              body |-> NoBody, base |-> NoBase, found |-> NotFetched]

Init ==
  LET
      \* The servers the repository's versions make: each version of the
      \* custom-fields router beside the customers router of part_001 lines 1-273.
      Deployments ==
        { [fields |-> "customFields.js", customers |-> "part_001"],
          [fields |-> "part_004", customers |-> "part_001"],
          [fields |-> "part_002", customers |-> "part_001"],
          [fields |-> "part_003", customers |-> "part_001"] }
  IN
  /\ custom_fields = InitialDb.cf
  /\ customers = InitialDb.cu
  /\ customer_field_values = InitialDb.cv
  /\ columns = InitialDb.co
  /\ nextFieldId = Cardinality(SeedFields) + 1
  /\ nextCustomerId = 1
  /\ routes \in Deployments
  /\ last = NoRequest
  /\ requests = [r \in Slots |-> NoHandler]
  /\ pool = [k \in Connections |-> FreshConnection]
  /\ created_at = <<>>

\* The handler has returned r: its session is what the database holds now, and
\* its response is on the way to the client.
Respond(op, r, customFields, body, base) ==
  \E commitLeft \in (IF r.S.open THEN BOOLEAN ELSE {TRUE}) :
    LET S == Settle(r.S, commitLeft)
    IN
      /\ custom_fields' = S.db.cf
      /\ customers' = S.db.cu
      /\ customer_field_values' = S.db.cv
      /\ columns' = S.db.co
      /\ last' = [op |-> op, status |-> r.status, id |-> r.id,
                  customFields |-> customFields, body |-> body,
                  base |-> base, found |-> NotFetched]
      /\ UNCHANGED << routes, requests, pool >>

RespondField(op, r, body) ==
  /\ Respond(op, r, <<>>, body, NoBase)
  /\ nextFieldId' = IF r.used THEN nextFieldId + 1 ELSE nextFieldId
  /\ UNCHANGED << nextCustomerId, created_at >>

\* created_at TIMESTAMP DEFAULT CURRENT_TIMESTAMP: the second in which the row
\* is inserted, the one of the row inserted before it or a later one.
NextSecond == {1}
CurrentTimestamp(tick) ==
  IF created_at = <<>> THEN 0 ELSE created_at[Len(created_at)] + tick

RespondCustomerAt(op, r, customFields, base, ticks) ==
  /\ Respond(op, r, customFields, NoBody, base)
  /\ nextCustomerId' = IF r.used THEN nextCustomerId + 1 ELSE nextCustomerId
  /\ \E tick \in ticks :
       created_at' = IF r.used THEN Append(created_at, CurrentTimestamp(tick))
                     ELSE created_at
  /\ UNCHANGED nextFieldId

RespondCustomer(op, r, customFields, base) ==
  RespondCustomerAt(op, r, customFields, base, NextSecond)

\* The client sends its next request when it has the response to the last one.
Idle == last = NoRequest

ResponseReceived ==
  /\ ~Idle
  /\ last' = NoRequest
  /\ UNCHANGED << custom_fields, customers, customer_field_values, columns,
                  nextFieldId, nextCustomerId, routes, requests, pool,
                  created_at >>

\* POST /api/custom-fields
PostFieldDynTxOf(op, bodies) ==
  LET
      \* POST /api/custom-fields: START TRANSACTION, INSERT, ALTER TABLE ADD COLUMN,
      \* COMMIT; on any error ROLLBACK and 500.  Every statement goes through
      \* pool.query: c[i] says whether the i-th one reaches the connection holding
      \* the transaction.  fault: the ALTER TABLE fails in the storage engine.
      DefineDynTx(db, id, body, c, fault) ==
        IF Falsy(body.name) \/ Falsy(body.type) THEN Result(Session(db), 400, 0, FALSE)
        ELSE
          LET S0 == Begin(Session(db))
              q1 == Query(S0, [k |-> "insertField", row |-> FieldRow(id, body)], c[1])
              q2 == Query(q1.S, [k |-> "addColumn", id |-> id,
                                 sqlType |-> ColumnType(body.type), fault |-> fault], c[2])
          IN  IF ~q1.ok THEN Result(Rollback(q1.S, c[3]), 500, id, FALSE)
              ELSE IF ~q2.ok THEN Result(Rollback(q2.S, c[3]), 500, id, TRUE)
              ELSE Result(Commit(q2.S, c[3]), 201, id, TRUE)
  IN
  /\ Idle
  /\ routes.fields = "customFields.js"
  /\ nextFieldId <= MaxFieldId
  /\ \E body \in bodies, c \in Choices(3), fault \in BOOLEAN :
       RespondField(op, DefineDynTx(Db, nextFieldId, SentBody(op, body), c, fault), body)

PostFieldDynTx == PostFieldDynTxOf("define", FieldBodies)

PostFieldDynTxAny == PostFieldDynTxOf("define", DefineBodies)

\* customFieldService.create
ClientPostFieldDynTx == PostFieldDynTxOf("clientDefine", FieldBodies)

PostFieldDynNoTxOf(op, bodies) ==
  LET
      \* POST: the same INSERT and ALTER TABLE ADD COLUMN with no transaction and no
      \* ROLLBACK; DELETE and PUT are those of routes/customFields.js.
      DefineDynNoTx(db, id, body, fault) ==
        IF Falsy(body.name) \/ Falsy(body.type) THEN Result(Session(db), 400, 0, FALSE)
        ELSE
          LET S0 == Session(db)
              q1 == Query(S0, [k |-> "insertField", row |-> FieldRow(id, body)], FALSE)
              q2 == Query(q1.S, [k |-> "addColumn", id |-> id,
                                 sqlType |-> ColumnType(body.type), fault |-> fault], FALSE)
          IN  IF ~q1.ok THEN Result(q1.S, 500, id, FALSE)
              ELSE IF ~q2.ok THEN Result(q2.S, 500, id, TRUE)
              ELSE Result(q2.S, 201, id, TRUE)
  IN
  /\ Idle
  /\ routes.fields = "part_004"
  /\ nextFieldId <= MaxFieldId
  /\ \E body \in bodies, fault \in BOOLEAN :
       RespondField(op, DefineDynNoTx(Db, nextFieldId, SentBody(op, body), fault), body)

PostFieldDynNoTx == PostFieldDynNoTxOf("define", FieldBodies)

PostFieldDynNoTxAny == PostFieldDynNoTxOf("define", DefineBodies)

\* customFieldService.create
ClientPostFieldDynNoTx == PostFieldDynNoTxOf("clientDefine", FieldBodies)

PostFieldEavOf(op, bodies) ==
  LET
      \* POST: one INSERT, no validation of the body.
      DefineEav(db, id, body) ==
        LET q1 == Query(Session(db), [k |-> "insertField", row |-> FieldRow(id, body)], FALSE)
        IN  IF ~q1.ok THEN Result(q1.S, 500, id, FALSE)
            ELSE Result(q1.S, 201, id, TRUE)
  IN
  /\ Idle
  /\ routes.fields \in {"part_002", "part_003"}
  /\ nextFieldId <= MaxFieldId
  /\ \E body \in bodies :
       RespondField(op, DefineEav(Db, nextFieldId, SentBody(op, body)), body)

PostFieldEav == PostFieldEavOf("define", FieldBodies)

PostFieldEavAny == PostFieldEavOf("define", DefineBodies)

\* customFieldService.create
ClientPostFieldEav == PostFieldEavOf("clientDefine", FieldBodies)

\* DELETE /api/custom-fields/:id
DeleteFieldDyn ==
  LET
      \* DELETE /api/custom-fields/:id: START TRANSACTION, SELECT (404 and ROLLBACK
      \* when empty), ALTER TABLE DROP COLUMN, DELETE, COMMIT; on error ROLLBACK, 500.
      RemoveDyn(db, id, c) ==
        LET S0 == Begin(Session(db))
            fields == SelectField(S0, id, TRUE)
            q2 == Query(S0, [k |-> "dropColumn", id |-> id], c[1])
            q3 == Query(q2.S, [k |-> "deleteField", id |-> id], c[2])
        IN  IF fields = {} THEN Result(Rollback(S0, c[3]), 404, id, FALSE)
            ELSE IF ~q2.ok THEN Result(Rollback(q2.S, c[3]), 500, id, FALSE)
            ELSE IF ~q3.ok THEN Result(Rollback(q3.S, c[3]), 500, id, FALSE)
            ELSE Result(Commit(q3.S, c[3]), 200, id, FALSE)
  IN
  /\ Idle
  /\ routes.fields \in {"customFields.js", "part_004"}
  /\ \E id \in FieldTargets, c \in Choices(3) :
       RespondField("remove", RemoveDyn(Db, id, c), NoBody)

DeleteFieldEavTx ==
  /\ Idle
  /\ routes.fields = "part_002"
  /\ \E id \in FieldTargets, c \in Choices(3) :
       RespondField("remove", RemoveEavTx(Db, id, c), NoBody)

DeleteFieldEavPlain ==
  LET
      \* DELETE: DELETE the field's values, DELETE the field, 404 when no row was
      \* affected; no transaction.
      RemoveEavPlain(db, id) ==
        LET q1 == Query(Session(db), [k |-> "deleteValuesOfField", id |-> id], FALSE)
            q2 == Query(q1.S, [k |-> "deleteField", id |-> id], FALSE)
        IN  IF q2.n = 0 THEN Result(q2.S, 404, id, FALSE)
            ELSE Result(q2.S, 200, id, FALSE)
  IN
  /\ Idle
  /\ routes.fields = "part_003"
  /\ \E id \in FieldTargets :
       RespondField("remove", RemoveEavPlain(Db, id), NoBody)

\* PUT /api/custom-fields/:id
PutFieldDyn ==
  LET
      \* PUT /api/custom-fields/:id: START TRANSACTION, SELECT (404 and ROLLBACK when
      \* empty), ALTER TABLE MODIFY COLUMN when the type changes, UPDATE, COMMIT.
      UpdateDyn(db, id, body, c) ==
        IF Falsy(body.name) \/ Falsy(body.type) THEN Result(Session(db), 400, id, FALSE)
        ELSE
          LET S0 == Begin(Session(db))
              fields == SelectField(S0, id, TRUE)
              currentField == CHOOSE f \in fields : TRUE
              q2 == IF currentField.type # body.type
                    THEN Query(S0, [k |-> "modifyColumn", id |-> id,
                                    sqlType |-> ColumnType(body.type)], c[1])
                    ELSE [ok |-> TRUE, n |-> 0, S |-> S0]
              q3 == Query(q2.S, [k |-> "updateField", row |-> FieldRow(id, body)], c[2])
          IN  IF fields = {} THEN Result(Rollback(S0, c[3]), 404, id, FALSE)
              ELSE IF ~q2.ok THEN Result(Rollback(q2.S, c[3]), 500, id, FALSE)
              ELSE IF ~q3.ok THEN Result(Rollback(q3.S, c[3]), 500, id, FALSE)
              ELSE Result(Commit(q3.S, c[3]), 200, id, FALSE)
  IN
  /\ Idle
  /\ routes.fields \in {"customFields.js", "part_004"}
  /\ \E id \in FieldTargets, body \in UpdateBodies, c \in Choices(3) :
       RespondField("update", UpdateDyn(Db, id, body, c), body)

PutFieldEav ==
  LET
      \* PUT: one UPDATE; the response is sent whatever the UPDATE matched.
      UpdateEav(db, id, body) ==
        LET q1 == Query(Session(db), [k |-> "updateField", row |-> FieldRow(id, body)], FALSE)
        IN  IF ~q1.ok THEN Result(q1.S, 500, id, FALSE)
            ELSE Result(q1.S, 200, id, FALSE)
  IN
  /\ Idle
  /\ routes.fields = "part_002"
  /\ \E id \in FieldTargets, body \in UpdateBodies :
       RespondField("update", UpdateEav(Db, id, body), body)

PutFieldEavChecked ==
  LET
      \* PUT: UPDATE, then SELECT the row; 404 when there is none.
      UpdateEavChecked(db, id, body) ==
        LET q1 == Query(Session(db), [k |-> "updateField", row |-> FieldRow(id, body)], FALSE)
        IN  IF ~q1.ok THEN Result(q1.S, 500, id, FALSE)
            ELSE IF SelectField(q1.S, id, FALSE) = {} THEN Result(q1.S, 404, id, FALSE)
            ELSE Result(q1.S, 200, id, FALSE)
  IN
  /\ Idle
  /\ routes.fields = "part_003"
  /\ \E id \in FieldTargets, body \in UpdateBodies :
       RespondField("update", UpdateEavChecked(Db, id, body), body)

\* POST /api/customers
PostCustomerOf(limit, bases, submissions, ticks) ==
  /\ Idle
  /\ nextCustomerId <= limit
  /\ \E base \in bases, customFields \in submissions :
       RespondCustomerAt("create",
                         CreateCustomer(Db, nextCustomerId, base, customFields),
                         customFields, base, ticks)

\* POST /api/customers, the next one possibly within the same second.
PostCustomerTimed ==
  LET SameOrNextSecond == {0, 1}
  IN
  PostCustomerOf(MoreCustomers, BaseInputs, WideSubmissions, SameOrNextSecond)

PostCustomer == PostCustomerOf(MaxCustomerId, BaseInputs, Submissions, NextSecond)

PostCustomerWide == PostCustomerOf(MoreCustomers, WideBases, WideSubmissions,
                                   NextSecond)

\* customerService.create
ClientPostCustomerOf(limit, bases, ticks) ==
  LET ClientCreate(db, id, base, customFields) ==
        CreateCustomer(db, id, base, ClientFilter(db, customFields))
  IN
  /\ Idle
  /\ nextCustomerId <= limit
  /\ \E base \in bases, customFields \in Submissions :
       RespondCustomerAt("clientCreate",
                         ClientCreate(Db, nextCustomerId, base, customFields),
                         customFields, base, ticks)

ClientPostCustomer == ClientPostCustomerOf(MaxCustomerId, BaseInputs, NextSecond)

ClientPostCustomerWide == ClientPostCustomerOf(MoreCustomers, WideBases, NextSecond)

\* PUT /api/customers/:id
PutCustomerByIdOf(targets, bases) ==
  /\ Idle
  /\ \E id \in targets, base \in bases, customFields \in Submissions :
       RespondCustomer("put", PutCustomer(Db, id, base, customFields), customFields,
                       base)

PutCustomerById == PutCustomerByIdOf(CustomerTargets, BaseInputs)

PutCustomerByIdWide == PutCustomerByIdOf(WideTargets, WideBases)

\* POST /api/customers/:id
PostCustomerById ==
  LET
      \* Object.entries of a submitted object: its keys are distinct.
      DistinctIds(customFields) ==
        \A i, j \in 1..Len(customFields) : customFields[i].id = customFields[j].id => i = j
      \* POST /api/customers/:id: START TRANSACTION, UPDATE the customer (dob as
      \* submitted), DELETE its values, one INSERT per submitted entry, COMMIT; on
      \* error ROLLBACK and 500; every statement through pool.query.
      PoolUpdateCustomer(db, id, base, customFields, c, k) ==
        LET S0 == Begin(Session(db))
            q1 == Query(S0, [k |-> "updateCustomer",
                             row |-> [id |-> id, name |-> base.name,
                                      dob |-> base.dob.utcDate]], c[1])
            q2 == Query(q1.S, [k |-> "deleteValuesOfCustomer", id |-> id], c[2])
            q3 == PoolInserts(q2.S, id, customFields, 1, k)
        IN  IF ~q3.ok THEN Result(Rollback(q3.S, c[3]), 500, id, FALSE)
            ELSE Result(Commit(q3.S, c[3]), 200, id, FALSE)
  IN
  /\ Idle
  /\ routes.customers = "part_001b"
  /\ \E id \in CustomerTargets, base \in BaseInputs,
        customFields \in { V \in Submissions : DistinctIds(V) }, c \in Choices(3) :
       \E k \in 0..Len(customFields) :
         /\ BagCardinality(customer_field_values) + Len(customFields) <= MaxRows
         /\ RespondCustomer("poolUpdate",
                            PoolUpdateCustomer(Db, id, base, customFields, c, k),
                            customFields, base)

\* DELETE /api/customers/:id
\* GET /api/customers/:id: reads, and answers with what it read.
GetCustomerByIdOf(targets) ==
  /\ Idle
  /\ \E id \in targets :
       LET r == GetCustomerVia(Db, routes.customers, id)
       IN  last' = [NoRequest EXCEPT !.op = "get", !.status = r.status, !.id = id,
                                     !.found = [row |-> r.row,
                                                customFields |-> r.customFields,
                                                order |-> <<>>]]
  /\ UNCHANGED << custom_fields, customers, customer_field_values, columns,
                  nextFieldId, nextCustomerId, routes, requests, pool,
                  created_at >>

GetCustomerByIdWide == GetCustomerByIdOf(WideTargets)

\* GET /api/customers: reads, and answers with the whole list; the order of
\* the customers and the entry of customer id are what the model keeps of it.
GetCustomersOf(targets) ==
  LET
      \* GROUP BY c.id ORDER BY c.created_at DESC: the ids of the customers, each
      \* once, a later second before an earlier one; rows of one second come in an
      \* order the query does not determine.
      OrderedByCreatedAt(db) ==
        { order \in [1..Cardinality(CustomerIds(db)) -> CustomerIds(db)] :
            /\ \A i, j \in DOMAIN order : i # j => order[i] # order[j]
            /\ \A i, j \in DOMAIN order :
                 i < j => created_at[order[i]] >= created_at[order[j]] }
      \* JSON_OBJECTAGG(IFNULL(cf.name, ''), IFNULL(cfv.value, '')) over the group of
      \* customer id after the two LEFT JOINs: a customer without stored values
      \* still has one joined row, of NULLs; of several rows with one name, the one
      \* aggregated last survives, and the query does not order the rows.
      AggregatedOutcomes(db, id) ==
        LET rows == { r \in DOMAIN db.cv : r.customer_id = id }
            pairs == IF rows = {} THEN { [name |-> "", value |-> ""] }
                     ELSE { [name |-> IF r.field_id \in FieldIds(db)
                                      THEN JoinedEntry(db, r).name ELSE "",
                             value |-> r.value] : r \in rows }
        IN  { obj \in SUBSET pairs :
                \A n \in { p.name : p \in pairs } :
                  Cardinality({ p \in obj : p.name = n }) = 1 }
  IN
  /\ Idle
  /\ \E id \in targets : \E custom_fields_json \in AggregatedOutcomes(Db, id) :
      \E order \in OrderedByCreatedAt(Db) :
       LET r == ListCustomers(Db, routes.customers, id, custom_fields_json)
       IN  last' = [NoRequest EXCEPT !.op = "list", !.status = r.status, !.id = id,
                                     !.found = [row |-> r.row,
                                                customFields |-> r.customFields,
                                                order |-> IF r.status = 200 THEN order
                                                          ELSE <<>>]]
  /\ UNCHANGED << custom_fields, customers, customer_field_values, columns,
                  nextFieldId, nextCustomerId, routes, requests, pool,
                  created_at >>

GetCustomersWide == GetCustomersOf(WideTargets)

DeleteCustomerByIdOf(targets) ==
  /\ Idle
  /\ \E id \in targets :
       RespondCustomer("delete", RemoveCustomer(Db, id), <<>>, NoBase)

DeleteCustomerById == DeleteCustomerByIdOf(CustomerTargets)

DeleteCustomerByIdWide == DeleteCustomerByIdOf(WideTargets)

Next ==
  \/ PostFieldDynTx
  \/ PostFieldDynNoTx
  \/ PostFieldEav
  \/ DeleteFieldDyn
  \/ DeleteFieldEavTx
  \/ DeleteFieldEavPlain
  \/ PutFieldDyn
  \/ PutFieldEav
  \/ PutFieldEavChecked
  \/ PostCustomer
  \/ ClientPostCustomer
  \/ PutCustomerById
  \/ DeleteCustomerById
  \/ ResponseReceived

Spec == Init /\ [][Next]_vars

\* The server of PoolDeployment.
InitPool ==
  /\ custom_fields = InitialDb.cf
  /\ customers = InitialDb.cu
  /\ customer_field_values = InitialDb.cv
  /\ columns = InitialDb.co
  /\ nextFieldId = Cardinality(SeedFields) + 1
  /\ nextCustomerId = 1
  /\ routes = PoolDeployment
  /\ last = NoRequest
  /\ requests = [r \in Slots |-> NoHandler]
  /\ pool = [k \in Connections |-> FreshConnection]
  /\ created_at = <<>>

NextPool ==
  \/ PostFieldEav
  \/ DeleteFieldEavTx
  \/ PutFieldEav
  \/ PostCustomer
  \/ ClientPostCustomer
  \/ PutCustomerById
  \/ PostCustomerById
  \/ DeleteCustomerById
  \/ ResponseReceived

SpecPool == InitPool /\ [][NextPool]_vars

\* The custom-fields routers alone, with the wider set of POST bodies.
NextFields ==
  \/ PostFieldDynTxAny
  \/ PostFieldDynNoTxAny
  \/ PostFieldEavAny
  \/ ClientPostFieldDynTx
  \/ ClientPostFieldDynNoTx
  \/ ClientPostFieldEav
  \/ DeleteFieldDyn
  \/ DeleteFieldEavTx
  \/ DeleteFieldEavPlain
  \/ PutFieldDyn
  \/ PutFieldEav
  \/ PutFieldEavChecked
  \/ ResponseReceived

SpecFields == Init /\ [][NextFields]_vars

\* The customers routers, reads included, with more customers and the wider
\* set of base attributes, and the renaming of definitions.
InitCustomers ==
  LET
      \* The servers whose customers router differs in what it reads (part_001
      \* lines 1-273, part_002 lines 1-275) over one field router.
      CustomerDeployments ==
        { [fields |-> "part_003", customers |-> "part_001"],
          [fields |-> "part_003", customers |-> "part_002"] }
  IN
  /\ custom_fields = InitialDb.cf
  /\ customers = InitialDb.cu
  /\ customer_field_values = InitialDb.cv
  /\ columns = InitialDb.co
  /\ nextFieldId = Cardinality(SeedFields) + 1
  /\ nextCustomerId = 1
  /\ routes \in CustomerDeployments
  /\ last = NoRequest
  /\ requests = [r \in Slots |-> NoHandler]
  /\ pool = [k \in Connections |-> FreshConnection]
  /\ created_at = <<>>

NextCustomers ==
  \/ PostCustomerWide
  \/ ClientPostCustomerWide
  \/ PutCustomerByIdWide
  \/ DeleteCustomerByIdWide
  \/ GetCustomerByIdWide
  \/ GetCustomersWide
  \/ PutFieldEavChecked
  \/ ResponseReceived

SpecCustomers == InitCustomers /\ [][NextCustomers]_vars

\* The creates, deletes and lists of the customers routers, two creates
\* possibly falling into one second.
NextListed ==
  \/ PostCustomerTimed
  \/ DeleteCustomerByIdWide
  \/ GetCustomersWide
  \/ ResponseReceived

SpecListed == InitCustomers /\ [][NextListed]_vars

\* ------------------------------------- routes/customFields.js, step by step
\* The handlers of routes/customFields.js as Node runs them: a handler runs
\* until its next await, and other requests are handled while it waits.  Each
\* pool.query takes a connection that is not busy; a statement other than
\* ALTER TABLE is one step, and an ALTER TABLE is two, the handler sending it
\* and MySQL completing it.

\* The connections no statement is running on.
FreeConnections == { k \in Connections : ~pool[k].busy }

\* The session of pooled connection k: the committed database and what the
\* transaction open on k, if any, holds.
ConnSession(k) == [db |-> Db, tx |-> pool[k].tx, open |-> pool[k].open]

\* START TRANSACTION on a connection: MySQL first commits a transaction that
\* is open on it.
BeginOn(k) == Begin(Commit(ConnSession(k), TRUE))

\* The step of request r on connection k ends with session S, the request now
\* being req and the next AUTO_INCREMENT id of custom_fields being id.  A
\* transaction belongs to the request whose START TRANSACTION opened it (the
\* step that takes the request to its INSERT, SELECT or UPDATE).
StepWithin(limit, r, k, S, busy, req, id) ==
  /\ Len(S.tx) <= limit
  /\ custom_fields' = S.db.cf
  /\ customers' = S.db.cu
  /\ customer_field_values' = S.db.cv
  /\ columns' = S.db.co
  /\ pool' = [pool EXCEPT ![k] = [tx |-> S.tx, open |-> S.open, busy |-> busy,
                                  owner |-> IF ~S.open THEN 0
                                            ELSE IF req.pc \in {"insert", "select", "updateRow"}
                                            THEN r
                                            ELSE pool[k].owner]]
  /\ requests' = [requests EXCEPT ![r] = req]
  /\ nextFieldId' = id
  /\ UNCHANGED << nextCustomerId, routes, last, created_at >>

Step(r, k, S, busy, req, id) == StepWithin(MaxPending, r, k, S, busy, req, id)

\* A step of request r that runs no statement.
Advance(r, req) ==
  /\ requests' = [requests EXCEPT ![r] = req]
  /\ UNCHANGED << custom_fields, customers, customer_field_values, columns,
                  nextFieldId, nextCustomerId, routes, last, pool, created_at >>

AlteredTargets == {2, 4}

\* router.post('/'): the request arrives; 400 without a name or a type.
ReceiveDefine(r) ==
  LET
      \* Request bodies and path ids of the requests handled step by step.
      DefineInputs == { body \in FieldBodies : body.name \in {"Notes", ""} }
  IN
  /\ requests[r].pc = "idle"
  /\ nextFieldId <= MaxFieldId
  /\ \E body \in DefineInputs :
       Advance(r, IF Falsy(body.name) \/ Falsy(body.type)
                  THEN [NoHandler EXCEPT !.op = "define", !.pc = "responded",
                                         !.body = body, !.status = 400]
                  ELSE [NoHandler EXCEPT !.op = "define", !.pc = "start",
                                         !.body = body])

\* router.delete('/:id'): the request arrives.
ReceiveRemove(r) ==
  /\ requests[r].pc = "idle"
  /\ \E id \in AlteredTargets :
       Advance(r, [NoHandler EXCEPT !.op = "remove", !.pc = "start", !.id = id])

\* router.put('/:id'): the request arrives; 400 without a name or a type.
ReceiveUpdate(r) ==
  LET UpdateInputs == { body \in FieldBodies : body.name \in {"Notes", "Active"} }
  IN
  /\ requests[r].pc = "idle"
  /\ \E id \in AlteredTargets, body \in UpdateInputs :
       Advance(r, IF Falsy(body.name) \/ Falsy(body.type)
                  THEN [NoHandler EXCEPT !.op = "update", !.pc = "responded",
                                         !.id = id, !.body = body, !.status = 400]
                  ELSE [NoHandler EXCEPT !.op = "update", !.pc = "start",
                                         !.id = id, !.body = body])

\* await pool.query('START TRANSACTION')
StartTransaction(r) ==
  /\ requests[r].pc = "start"
  /\ \E k \in FreeConnections :
       Step(r, k, BeginOn(k), FALSE,
            [requests[r] EXCEPT !.pc = IF requests[r].op = "define" THEN "insert" ELSE "select"],
            nextFieldId)

\* await pool.query('INSERT INTO custom_fields ...'); fieldId = result.insertId
InsertDefinition(r) ==
  /\ requests[r].pc = "insert"
  /\ \E k \in FreeConnections :
       LET q == Query(ConnSession(k),
                      [k |-> "insertField",
                       row |-> FieldRow(nextFieldId, requests[r].body)], TRUE)
       IN  IF q.ok
           THEN Step(r, k, q.S, FALSE,
                     [requests[r] EXCEPT !.pc = "alter", !.id = nextFieldId],
                     nextFieldId + 1)
           ELSE Step(r, k, q.S, FALSE,
                     [requests[r] EXCEPT !.pc = "rollback", !.status = 500],
                     nextFieldId)

\* await pool.query('SELECT * FROM custom_fields WHERE id = ?'): 404 when
\* there is no such row; an update alters the column only when the type changes.
SelectDefinition(r) ==
  /\ requests[r].pc = "select"
  /\ \E k \in FreeConnections :
       LET fields == SelectField(ConnSession(k), requests[r].id, TRUE)
           currentField == CHOOSE f \in fields : TRUE
       IN  Advance(r, IF fields = {}
                      THEN [requests[r] EXCEPT !.pc = "rollback", !.status = 404]
                      ELSE IF requests[r].op = "update"
                              /\ currentField.type = requests[r].body.type
                      THEN [requests[r] EXCEPT !.pc = "write"]
                      ELSE [requests[r] EXCEPT !.pc = "alter"])

\* pool.query(`ALTER TABLE customers ...`) is called: the statement is sent on
\* a connection, and the handler waits for it.
SendAlter(r) ==
  /\ requests[r].pc = "alter"
  /\ \E k \in FreeConnections :
       /\ pool' = [pool EXCEPT ![k].busy = TRUE]
       /\ requests' = [requests EXCEPT ![r].pc = "altering", ![r].conn = k]
  /\ UNCHANGED << custom_fields, customers, customer_field_values, columns,
                  nextFieldId, nextCustomerId, routes, last, created_at >>

\* MySQL completes the ALTER TABLE (or fails it) and the await returns.
CompleteAlter(r) ==
  LET
      \* The ALTER TABLE statement of a request.
      AlterStatement(req, fault) ==
        IF req.op = "define"
        THEN [k |-> "addColumn", id |-> req.id, sqlType |-> ColumnType(req.body.type),
              fault |-> fault]
        ELSE IF req.op = "remove" THEN [k |-> "dropColumn", id |-> req.id]
        ELSE [k |-> "modifyColumn", id |-> req.id, sqlType |-> ColumnType(req.body.type)]
  IN
  /\ requests[r].pc = "altering"
  /\ \E fault \in (IF requests[r].op = "define" THEN BOOLEAN ELSE {FALSE}) :
       LET k == requests[r].conn
           q == Query(ConnSession(k), AlterStatement(requests[r], fault), TRUE)
       IN  Step(r, k, q.S, FALSE,
                IF ~q.ok THEN [requests[r] EXCEPT !.pc = "rollback", !.status = 500]
                ELSE IF requests[r].op = "define"
                THEN [requests[r] EXCEPT !.pc = "commit"]
                ELSE [requests[r] EXCEPT !.pc = "write"],
                nextFieldId)

\* await pool.query('DELETE FROM custom_fields WHERE id = ?') of a remove,
\* await pool.query('UPDATE custom_fields SET ...') of an update.
WriteDefinition(r) ==
  /\ requests[r].pc = "write"
  /\ \E k \in FreeConnections :
       LET st == IF requests[r].op = "remove"
                 THEN [k |-> "deleteField", id |-> requests[r].id]
                 ELSE [k |-> "updateField",
                       row |-> FieldRow(requests[r].id, requests[r].body)]
           q == Query(ConnSession(k), st, TRUE)
       IN  Step(r, k, q.S, FALSE,
                IF q.ok THEN [requests[r] EXCEPT !.pc = "commit"]
                ELSE [requests[r] EXCEPT !.pc = "rollback", !.status = 500],
                nextFieldId)

\* await pool.query('COMMIT'), then the success response.
CommitTransaction(r) ==
  /\ requests[r].pc = "commit"
  /\ \E k \in FreeConnections :
       Step(r, k, Commit(ConnSession(k), TRUE), FALSE,
            [requests[r] EXCEPT !.pc = "responded",
                                !.status = IF requests[r].op = "define" THEN 201 ELSE 200],
            nextFieldId)

\* await pool.query('ROLLBACK'), then the 404 or 500 response.  When the
\* ROLLBACK itself is rejected: the one before the 404 sits in the try block
\* and leads to the catch block; the one in the catch block rejects the
\* handler's promise, the response of the catch block is never sent, and the
\* request is answered only if the framework answers rejected handlers
\* (Express 5 does, with 500; Express 4 does not).
RollbackTransactionOf(r, faults) ==
  /\ requests[r].pc = "rollback"
  /\ \E k \in FreeConnections, fails \in faults, answered \in BOOLEAN :
       IF ~fails
       THEN Step(r, k, Rollback(ConnSession(k), TRUE), FALSE,
                 [requests[r] EXCEPT !.pc = "responded"], nextFieldId)
       ELSE IF requests[r].status = 404
       THEN Advance(r, [requests[r] EXCEPT !.status = 500])
       ELSE Advance(r, [requests[r] EXCEPT !.pc = IF answered THEN "responded"
                                                  ELSE "unanswered"])

RollbackTransaction(r) == RollbackTransactionOf(r, {FALSE})

RollbackMayFail(r) == RollbackTransactionOf(r, BOOLEAN)

\* The response has been sent; the slot takes another request.  A
\* transaction the request leaves open is no running request's any more.
Finished(r) ==
  /\ requests[r].pc = "responded"
  /\ requests' = [requests EXCEPT ![r] = NoHandler]
  /\ pool' = [k \in Connections |->
                IF pool[k].owner = r THEN [pool[k] EXCEPT !.owner = 0] ELSE pool[k]]
  /\ UNCHANGED << custom_fields, customers, customer_field_values, columns,
                  nextFieldId, nextCustomerId, routes, last, created_at >>

InitInterleaved ==
  /\ custom_fields = InitialDb.cf
  /\ customers = InitialDb.cu
  /\ customer_field_values = InitialDb.cv
  /\ columns = InitialDb.co
  /\ nextFieldId = Cardinality(SeedFields) + 1
  /\ nextCustomerId = 1
  /\ routes = [fields |-> "customFields.js", customers |-> "part_001"]
  /\ last = NoRequest
  /\ requests = [r \in Slots |-> NoHandler]
  /\ pool = [k \in Connections |-> FreshConnection]
  /\ created_at = <<>>

NextInterleaved ==
  \E r \in Slots :
    \/ ReceiveDefine(r)
    \/ ReceiveRemove(r)
    \/ ReceiveUpdate(r)
    \/ StartTransaction(r)
    \/ InsertDefinition(r)
    \/ SelectDefinition(r)
    \/ SendAlter(r)
    \/ CompleteAlter(r)
    \/ WriteDefinition(r)
    \/ CommitTransaction(r)
    \/ RollbackTransaction(r)
    \/ Finished(r)

SpecInterleaved == InitInterleaved /\ [][NextInterleaved]_vars

\* ------------------------------- customerService.create / update in two steps
\* src/services/api.ts lines 201-293: the client first awaits GET /custom-fields
\* and filters customerData.customFields by the ids listed, then sends the
\* POST or PUT; other requests are served in between.

\* const response = await api.get('/custom-fields'); validCustomFields = ...
ClientFetched(r) ==
  LET ClientWrites == {"clientCreate", "clientUpdate"}
  IN
  /\ Idle
  /\ requests[r].pc = "idle"
  /\ \E op \in ClientWrites, customFields \in Submissions :
       \E id \in (IF op = "clientUpdate" THEN CustomerIds(Db) ELSE {0}) :
         Advance(r, [NoHandler EXCEPT !.op = op, !.pc = "fetched", !.id = id,
                                      !.customFields = ClientFilter(Db, customFields)])

\* The server's answer to the POST or PUT the client sends with the filtered
\* customFields.
ClientAnswered(r, op, res, base) ==
  LET S == Settle(res.S, TRUE)
  IN
    /\ custom_fields' = S.db.cf
    /\ customers' = S.db.cu
    /\ customer_field_values' = S.db.cv
    /\ columns' = S.db.co
    /\ last' = [op |-> op, status |-> res.status, id |-> res.id,
                customFields |-> requests[r].customFields, body |-> NoBody,
                base |-> base, found |-> NotFetched]
    /\ requests' = [requests EXCEPT ![r] = NoHandler]
    /\ nextCustomerId' = IF res.used THEN nextCustomerId + 1 ELSE nextCustomerId
    /\ created_at' = IF res.used THEN Append(created_at, CurrentTimestamp(1))
                     ELSE created_at
    /\ UNCHANGED << nextFieldId, routes, pool >>

\* await api.post('/customers', processedData)
ClientSentCreate(r) ==
  /\ Idle
  /\ requests[r].pc = "fetched"
  /\ requests[r].op = "clientCreate"
  /\ nextCustomerId <= MaxCustomerId
  /\ \E base \in BaseInputs :
       ClientAnswered(r, "clientCreate",
                      CreateCustomer(Db, nextCustomerId, base, requests[r].customFields),
                      base)

\* await api.put(`/customers/${id}`, processedData)
ClientSentUpdate(r) ==
  /\ Idle
  /\ requests[r].pc = "fetched"
  /\ requests[r].op = "clientUpdate"
  /\ \E base \in BaseInputs :
       ClientAnswered(r, "clientUpdate",
                      PutCustomer(Db, requests[r].id, base, requests[r].customFields),
                      base)

NextClient ==
  \/ \E r \in FirstSlot : ClientFetched(r) \/ ClientSentCreate(r) \/ ClientSentUpdate(r)
  \/ PostFieldEav
  \/ DeleteFieldDyn
  \/ DeleteFieldEavTx
  \/ DeleteFieldEavPlain
  \/ ResponseReceived

SpecClient == Init /\ [][NextClient]_vars

\* ------------------------------- two updates of one customer, step by step
\* PUT /api/customers/:id (part_001 lines 143-209) holds one connection from
\* pool.getConnection() for all its statements; POST /api/customers/:id
\* (part_001 lines 282-324) sends each statement through pool.query.

\* Pending statements kept per connection while customers are updated.
MaxStatements == 3

\* A statement step of an update.
UpdateStep(r, k, S, busy, req) ==
  StepWithin(MaxStatements, r, k, S, busy, req, nextFieldId)

\* The customFields the two updates submit: one valid entry each.
UpdateSubmissions == { << Entry(<<"1">>, "a") >>, << Entry(<<"2">>, "b") >> }

\* The statement reads or writes rows of customer id.
Touches(st, id) ==
  \/ st.k = "updateCustomer" /\ st.row.id = id
  \/ st.k = "deleteValuesOfCustomer" /\ st.id = id
  \/ st.k = "insertValues" /\ \E i \in 1..Len(st.rows) : st.rows[i].customer_id = id

\* The connections the next statement of request r can run on.
ConnectionsFor(r) ==
  IF requests[r].op = "put" THEN {requests[r].conn} ELSE FreeConnections

\* router.put('/:id'): const connection = await pool.getConnection()
ReceivePut(r) ==
  /\ requests[r].pc = "idle"
  /\ \E id \in CustomerIds(Db), customFields \in UpdateSubmissions,
        k \in FreeConnections :
       /\ pool' = [pool EXCEPT ![k].busy = TRUE]
       /\ requests' = [requests EXCEPT ![r] =
                         [NoHandler EXCEPT !.op = "put", !.pc = "begin", !.id = id,
                                           !.conn = k, !.customFields = customFields]]
  /\ UNCHANGED << custom_fields, customers, customer_field_values, columns,
                  nextFieldId, nextCustomerId, routes, last, created_at >>

\* router.post('/:id'): the request arrives.
ReceivePoolUpdate(r) ==
  /\ requests[r].pc = "idle"
  /\ \E id \in CustomerIds(Db), customFields \in UpdateSubmissions :
       Advance(r, [NoHandler EXCEPT !.op = "poolUpdate", !.pc = "begin", !.id = id,
                                    !.customFields = customFields])

\* await connection.beginTransaction() / await pool.query('START TRANSACTION')
BeginUpdate(r) ==
  /\ requests[r].pc = "begin"
  /\ \E k \in ConnectionsFor(r) :
       UpdateStep(r, k, BeginOn(k), requests[r].op = "put",
                  [requests[r] EXCEPT !.pc = "updateRow"])

\* One data statement of an update, on a connection where it need not wait.
UpdateStatement(r, st, next) ==
  LET
      \* InnoDB row locks: a statement on the rows of customer id waits while a
      \* transaction open on another connection holds uncommitted changes to them.
      LockedByOther(k, id) ==
        \E k2 \in Connections \ {k} :
          /\ pool[k2].open
          /\ \E i \in 1..Len(pool[k2].tx) : Touches(pool[k2].tx[i], id)
  IN
  \E k \in ConnectionsFor(r) :
    /\ ~LockedByOther(k, requests[r].id)
    /\ LET q == Query(ConnSession(k), st, TRUE)
       IN  UpdateStep(r, k, q.S, requests[r].op = "put",
                      IF q.ok THEN [requests[r] EXCEPT !.pc = next]
                      ELSE [requests[r] EXCEPT !.pc = "end", !.status = 500])

\* UPDATE customers SET name = ?, dob = ?, ... WHERE id = ?
UpdateRow(r) ==
  /\ requests[r].pc = "updateRow"
  /\ UpdateStatement(r, [k |-> "updateCustomer",
                         row |-> CHOOSE c \in customers : c.id = requests[r].id],
                     "deleteValues")

\* DELETE FROM customer_field_values WHERE customer_id = ?
DeleteValues(r) ==
  /\ requests[r].pc = "deleteValues"
  /\ UpdateStatement(r, [k |-> "deleteValuesOfCustomer", id |-> requests[r].id],
                     "insertValues")

\* INSERT INTO customer_field_values (customer_id, field_id, value) ...
InsertValuesOf(r) ==
  /\ requests[r].pc = "insertValues"
  /\ UpdateStatement(r, [k |-> "insertValues",
                         rows |-> ValidFieldValues(requests[r].id,
                                                   requests[r].customFields)],
                     "end")

\* COMMIT and the 200 response, or after a failed statement ROLLBACK and 500;
\* the PUT then releases its connection.
EndUpdate(r) ==
  /\ requests[r].pc = "end"
  /\ \E k \in ConnectionsFor(r) :
       IF requests[r].status = 500
       THEN UpdateStep(r, k, Rollback(ConnSession(k), TRUE), FALSE,
                       [requests[r] EXCEPT !.pc = "responded"])
       ELSE UpdateStep(r, k, Commit(ConnSession(k), TRUE), FALSE,
                       [requests[r] EXCEPT !.pc = "responded", !.status = 200])

\* The database with one customer stored.
InitUpdating ==
  /\ custom_fields = InitialDb.cf
  /\ customers = { CustomerRow(1, CHOOSE base \in BaseInputs : base.dob = NoDob) }
  /\ customer_field_values = InitialDb.cv
  /\ columns = InitialDb.co
  /\ nextFieldId = Cardinality(SeedFields) + 1
  /\ nextCustomerId = 2
  /\ routes = PoolDeployment
  /\ last = NoRequest
  /\ requests = [r \in Slots |-> NoHandler]
  /\ pool = [k \in Connections |-> FreshConnection]
  /\ created_at = <<0>>

NextUpdating ==
  \E r \in Slots :
    \/ ReceivePut(r)
    \/ ReceivePoolUpdate(r)
    \/ BeginUpdate(r)
    \/ UpdateRow(r)
    \/ DeleteValues(r)
    \/ InsertValuesOf(r)
    \/ EndUpdate(r)
    \/ Finished(r)

SpecUpdating == InitUpdating /\ [][NextUpdating]_vars


NextAnswering ==
  \E r \in FirstSlot :
    \/ ReceiveDefine(r)
    \/ ReceiveRemove(r)
    \/ ReceiveUpdate(r)
    \/ StartTransaction(r)
    \/ InsertDefinition(r)
    \/ SelectDefinition(r)
    \/ SendAlter(r)
    \/ CompleteAlter(r)
    \/ WriteDefinition(r)
    \/ CommitTransaction(r)
    \/ RollbackMayFail(r)
    \/ Finished(r)

SpecAnswering == InitInterleaved /\ [][NextAnswering]_vars /\ WF_vars(NextAnswering)

\* ------------------------------------------------------------ properties
\* The rows customer_field_values holds for one customer.
StoredFor(id) ==
  KeepRows(customer_field_values,
           { r \in DOMAIN customer_field_values : r.customer_id = id })

\* A submitted entry whose id is the id of no definition.
UnknownId(e) == \A f \in custom_fields : NumberToString(f.id) # e.id

\* C1: every row of customer_field_values references a definition that
\* exists, and once DELETE /api/custom-fields/f has answered 200, GET
\* /api/customers/c returns no custom-field entry of field f, for every c.
C1_ValuesReferenceFields ==
  /\ \A r \in DOMAIN customer_field_values : r.field_id \in FieldIds(Db)
  /\ (last.op = "remove" /\ last.status = 200) =>
       \A c \in CustomerIds(Db) :
         \A e \in DOMAIN GetCustomer(Db, c).customFields : e.id # last.id

\* C2: when POST /api/customers answers 500 (in this model only the INSERT of
\* the values can fail, after the customer row was inserted), no customer row
\* with the attempted id exists and no value is stored for it.
C2_CreateRolledBack ==
  (last.op \in {"create", "clientCreate"} /\ last.status = 500) =>
    /\ last.id \notin CustomerIds(Db)
    /\ StoredFor(last.id) = EmptyBag

\* A create failed at the INSERT of its values: it had values to insert and
\* consumed the id it reports.
C2_Witness ==
  /\ last.op = "create"
  /\ last.status = 500
  /\ Len(ValidFieldValues(last.id, last.customFields)) > 0
  /\ nextCustomerId = last.id + 1

C4_UnknownFieldIgnored ==
  (/\ last.op \in {"create", "clientCreate"}
   /\ \E i \in 1..Len(last.customFields) : UnknownId(last.customFields[i])) =>
    /\ last.status = 201
    /\ last.id \in CustomerIds(Db)
    /\ \A r \in DOMAIN StoredFor(last.id) :
         \E j \in 1..Len(last.customFields) :
           /\ ~UnknownId(last.customFields[j])
           /\ NumberToString(r.field_id) = last.customFields[j].id
           /\ r.value = last.customFields[j].value

\* C5: under the column-per-field routers, after POST /api/custom-fields the
\* definition and its custom_<id> column both exist or neither does, and after
\* a 500 the definition is not listed.
C5_DefineAtomic ==
  (last.op = "define" /\ routes.fields \in {"customFields.js", "part_004"}) =>
    /\ last.id \in FieldIds(Db) <=> last.id \in ColumnIds(Db)
    /\ last.status = 500 => last.id \notin { f.id : f \in ListFields(Db) }

\* C6: PUT /api/customers/id for an id no customer has answers 404 and leaves
\* customers and customer_field_values as they were.
C6_UpdateUnknownCustomer ==
  [][ (Idle /\ last'.op = "put" /\ last'.id \notin CustomerIds(Db)) =>
        /\ last'.status = 404
        /\ UNCHANGED << customers, customer_field_values >> ]_vars

\* C7: when a customer update (PUT /api/customers/:id or POST
\* /api/customers/:id) answers 500, which in this model happens only when an
\* INSERT of values fails after the UPDATE and the DELETE have run, customers
\* and customer_field_values are as they were before the request.
C7_UpdateRolledBack ==
  [][ (Idle /\ last'.op \in {"put", "poolUpdate"} /\ last'.status = 500) =>
        UNCHANGED << customers, customer_field_values >> ]_vars

\* C8: no two rows of customer_field_values share (customer_id, field_id).
C8_OneValuePerField ==
  /\ \A r \in DOMAIN customer_field_values : customer_field_values[r] = 1
  /\ \A r, q \in DOMAIN customer_field_values :
       (r.customer_id = q.customer_id /\ r.field_id = q.field_id) => r = q

\* C9: DELETE /api/custom-fields/id for an id no definition has answers 404
\* and leaves the definitions, the stored values and the columns unchanged.
C9_RemoveUnknownField ==
  [][ (Idle /\ last'.op = "remove" /\ last'.id \notin FieldIds(Db)) =>
        /\ last'.status = 404
        /\ UNCHANGED << custom_fields, customer_field_values, columns >> ]_vars

\* A remove of an id no definition has was answered while definitions, values
\* and (under the column-per-field routers) columns were stored.
C9_Witness ==
  /\ last.op = "remove"
  /\ last.id \notin FieldIds(Db)
  /\ last.status = 404
  /\ customer_field_values # EmptyBag

\* C10: PUT /api/custom-fields/id for an id no definition has fails (404, or
\* the 400 of a body without name or type, which is tested first), creates no
\* definition and alters no column.
C10_UpdateUnknownField ==
  [][ (Idle /\ last'.op = "update" /\ last'.id \notin FieldIds(Db)) =>
        /\ last'.status \in {400, 404}
        /\ UNCHANGED << custom_fields, columns >> ]_vars

\* The column custom_<id>, where there is one, has the SQL type that the
\* routers derive from the type recorded in definition id.
ColumnMatchesType(db, id) ==
  \A f \in db.cf, col \in db.co :
    (f.id = id /\ col.id = id) => col.sqlType = ColumnType(f.type)

\* C11: under the column-per-field routers, a PUT /api/custom-fields/id sent
\* while column custom_<id> has the type of its definition leaves them in
\* correspondence, and when it does not answer 200 neither the definitions nor
\* the columns have changed.
C11_UpdateTypeAtomic ==
  [][ (/\ Idle
       /\ last'.op = "update"
       /\ routes.fields \in {"customFields.js", "part_004"}
       /\ ColumnMatchesType(Db, last'.id)) =>
        /\ ColumnMatchesType(Db', last'.id)
        /\ last'.status # 200 => UNCHANGED << custom_fields, columns >> ]_vars

\* type: 'text' | 'number' | 'date' | 'boolean' | 'select'
FieldTypes == {"text", "number", "date", "boolean", "select"}

\* C12: POST /api/custom-fields with an empty name or with a type outside
\* FieldTypes answers 400 and neither inserts a definition nor adds a column.
C12_DefineValidated ==
  [][ (/\ Idle
       /\ last'.op = "define"
       /\ (last'.body.name = "" \/ last'.body.type \notin FieldTypes)) =>
        /\ last'.status = 400
        /\ UNCHANGED << custom_fields, columns >> ]_vars

\* C13: POST /api/custom-fields with a name, type 'select' and options
\* absent or empty answers 400 and stores no definition.
C13_SelectNeedsOptions ==
  [][ (/\ Idle
       /\ last'.op = "define"
       /\ last'.body.name # ""
       /\ last'.body.type = "select"
       /\ (last'.body.options.kind = "absent" \/ last'.body.options.items = <<>>)) =>
        /\ last'.status = 400
        /\ UNCHANGED custom_fields ]_vars

\* C14: POST /api/custom-fields with a name and one of the five types of
\* FieldTypes (for 'select', a non-empty list of options) answers 201 and the
\* definition with the returned id is stored with that type.
C14_DefineEachType ==
  [][ (/\ Idle
       /\ last'.op = "define"
       /\ last'.body.name # ""
       /\ last'.body.type \in FieldTypes
       /\ last'.body.type = "select" =>
            (last'.body.options.kind = "array" /\ last'.body.options.items # <<>>)) =>
        /\ last'.status = 201
        /\ \E f \in custom_fields' : f.id = last'.id /\ f.type = last'.body.type ]_vars

\* C15: when a define (POST /api/custom-fields, directly or through
\* customFieldService.create) has answered 201, GET /api/custom-fields answers
\* 200 with an entry that has the returned id and the submitted name, type and
\* options.
C15_DefineListRoundTrip ==
  LET
      \* The options of a submitted body as the caller gave them: a list, or none.
      GivenOptions(options) ==
        IF options.kind = "array" THEN [kind |-> "array", items |-> options.items]
        ELSE [kind |-> "none", items |-> <<>>]
      \* The options of a listed entry: a list, none (null or undefined), or some
      \* other value.
      ListedOptions(options) ==
        IF options.kind \in {"null", "undefined"} THEN [kind |-> "none", items |-> <<>>]
        ELSE options
  IN
  (last.op \in {"define", "clientDefine"} /\ last.status = 201) =>
    /\ ListResponse(Db, routes.fields).status = 200
    /\ \E e \in ListResponse(Db, routes.fields).fields :
         /\ e.id = last.id
         /\ e.name = last.body.name
         /\ e.type = last.body.type
         /\ ListedOptions(e.options) = GivenOptions(last.body.options)

\* C16: after a customer delete(id) answers 204, no stored value carries
\* customer id `id` and get(id) answers 404, while every other customer's row
\* and stored values, and all field definitions, are as they were.
C16_DeleteFrame ==
  [][ (Idle /\ last'.op = "delete" /\ last'.status = 204)
      => /\ \A r \in DOMAIN customer_field_values' : r.customer_id # last'.id
         /\ GetCustomer(Db', last'.id).status = 404
         /\ customers' = { c \in customers : c.id # last'.id }
         /\ \A r \in DOMAIN customer_field_values :
              r.customer_id # last'.id
              => /\ r \in DOMAIN customer_field_values'
                 /\ customer_field_values'[r] = customer_field_values[r]
         /\ DOMAIN customer_field_values' \subseteq DOMAIN customer_field_values
         /\ UNCHANGED <<custom_fields, columns>> ]_vars

\* A delete of a customer that existed was answered 204 while another customer
\* holds stored values.
C16_Witness ==
  /\ last.op = "delete"
  /\ last.status = 204
  /\ last.id < nextCustomerId
  /\ \E c \in customers :
       c.id # last.id /\ \E r \in DOMAIN customer_field_values : r.customer_id = c.id

\* C17: GET /api/customers/id answers 404 exactly when no customer has that
\* id; otherwise it answers 200 with that customer's row and one entry per
\* value stored for id (no more, no fewer), each entry carrying the name and
\* type its definition has now.
C17_GetReturnsStored ==
  last.op = "get" =>
    /\ (last.status = 404) <=> (last.id \notin CustomerIds(Db))
    /\ last.status # 404 =>
         /\ last.status = 200
         /\ last.found.row \in customers
         /\ last.found.row.id = last.id
         /\ BagCardinality(last.found.customFields) = BagCardinality(StoredFor(last.id))
         /\ \A r \in DOMAIN StoredFor(last.id) :
              \E f \in custom_fields :
                /\ f.id = r.field_id
                /\ CopiesIn([id |-> f.id, name |-> f.name, type |-> f.type,
                             value |-> r.value], last.found.customFields)
                     = StoredFor(last.id)[r]

\* C18: for a customer with no stored values, GET /api/customers/id and GET
\* /api/customers answer 200 and report no custom-field entry at all for that
\* customer.
C18_NoValuesNoEntries ==
  (last.op \in {"get", "list"} /\ last.id \in CustomerIds(Db)
     /\ StoredFor(last.id) = EmptyBag)
  => /\ last.status = 200
     /\ last.found.customFields = EmptyBag

\* C20: POST /api/customers or PUT /api/customers/id with a dob that is not a
\* date answers 400 and leaves the customers table as it was.
C20_BadDobRejected ==
  [][ (Idle /\ last'.op \in {"create", "clientCreate", "put"}
         /\ last'.base.dob.kind = "invalid")
      => /\ last'.status = 400
         /\ UNCHANGED customers ]_vars

\* C19: under routes/customFields.js, at no time are two requests both at
\* their ALTER TABLE step, sent and not yet completed.
C19_AlterSerialized ==
  \A r1, r2 \in Slots :
    (requests[r1].pc = "altering" /\ requests[r2].pc = "altering") => r1 = r2

\* The entry names a select-type definition and its value is none of that
\* definition's options.
OutsideOptions(db, e) ==
  /\ ValidEntry(e)
  /\ \E f \in db.cf :
       /\ f.id = ParseInt(e.id)
       /\ f.type = "select"
       /\ \A i \in 1..Len(f.options.items) : f.options.items[i] # e.value

\* C21: POST /api/customers with a value for a select-type field that is not
\* one of the field's options answers 400 and stores neither the customer nor
\* a value; with every such value among the options (and every field id
\* known) it answers 201.
C21_SelectValueValidated ==
  [][ (Idle /\ last'.op = "create")
      => /\ (\E i \in 1..Len(last'.customFields) :
                OutsideOptions(Db, last'.customFields[i]))
            => /\ last'.status = 400
               /\ UNCHANGED << customers, customer_field_values >>
         /\ (/\ last'.customFields # <<>>
             /\ \A i \in 1..Len(last'.customFields) :
                  /\ ValidEntry(last'.customFields[i])
                  /\ ~UnknownId(last'.customFields[i])
                  /\ ~OutsideOptions(Db, last'.customFields[i]))
            => last'.status = 201 ]_vars

\* C22: GET /api/customers answers 200 with every stored customer exactly
\* once, a customer created by a later create before every customer created
\* by an earlier one (ids are handed out in creation order).
C22_ListNewestFirst ==
  last.op = "list" =>
    /\ last.status = 200
    /\ { last.found.order[i] : i \in DOMAIN last.found.order } = CustomerIds(Db)
    /\ Len(last.found.order) = Cardinality(CustomerIds(Db))
    /\ \A i, j \in DOMAIN last.found.order :
         i < j => last.found.order[i] > last.found.order[j]

\* Applying the statement twice leaves what applying it once leaves, and
\* neither application raises.
Idempotent(once, twice) == once.ok /\ twice.ok /\ twice.db = once.db

\* C23: DELETE FROM customer_field_values WHERE customer_id = ? and DELETE
\* FROM customer_field_values WHERE field_id = ? are idempotent on every
\* database, and DELETE /api/customers/id sent again right after it was
\* answered is answered 204 again and changes nothing.
C23_DeleteValuesIdempotent ==
  [][ (Idle /\ last'.op = "delete")
      => /\ \A id \in WideTargets :
              Idempotent(DeleteValuesOfCustomer(Db, id),
                         DeleteValuesOfCustomer(DeleteValuesOfCustomer(Db, id).db, id))
         /\ \A id \in FieldIds(Db) \cup FieldTargets :
              Idempotent(DeleteValuesOfField(Db, id),
                         DeleteValuesOfField(DeleteValuesOfField(Db, id).db, id))
         /\ RemoveCustomer(Db', last'.id).status = 204
         /\ RemoveCustomer(Db', last'.id).S.db = Db' ]_vars

\* A delete of a customer that had been created was answered 204 and that
\* customer is gone, while a remaining customer holds two values.
C23_Witness ==
  /\ last.op = "delete"
  /\ last.status = 204
  /\ last.id < nextCustomerId
  /\ last.id \notin CustomerIds(Db)
  /\ \E id \in CustomerIds(Db) : BagCardinality(StoredFor(id)) = 2

\* C24: every define, update or remove request that reached its handler's
\* try block is eventually answered, also when a statement fails and when
\* the ROLLBACK of the catch block fails.
C24_EveryRequestAnswered ==
  \A r \in FirstSlot :
    (requests[r].pc = "start") ~> (requests[r].pc = "responded")

\* C25: with the dynamic-column routers, every definition the list returns
\* has its column custom_<id> on customers, and DELETE /api/custom-fields/id
\* of a listed definition answers 200 and leaves neither the definition nor
\* the column.
C25_ListedFieldsHaveColumns ==
  [][ (Idle /\ last'.op = "remove"
         /\ routes.fields \in {"customFields.js", "part_004"}
         /\ last'.id \in { f.id : f \in ListFields(Db) })
      => /\ \A f \in ListFields(Db) : f.id \in ColumnIds(Db)
         /\ last'.status = 200
         /\ last'.id \notin FieldIds(Db')
         /\ last'.id \notin ColumnIds(Db') ]_vars

\* C26: under routes/customFields.js, a data statement of a request that
\* has a transaction open is held in that transaction, and the START
\* TRANSACTION, COMMIT and ROLLBACK of a request leave every transaction that
\* is not its own as it was (they neither commit nor discard its writes).
C26_OwnConnection ==
  [][ \A r \in Slots :
        /\ (/\ requests[r].pc \in {"insert", "write"}
            /\ requests'[r].pc \in {"alter", "commit"}
            /\ \E k \in Connections : pool[k].open /\ pool[k].owner = r)
           => \E k \in Connections :
                /\ pool[k].open /\ pool[k].owner = r
                /\ Len(pool'[k].tx) = Len(pool[k].tx) + 1
        /\ (/\ requests[r].pc \in {"start", "commit", "rollback"}
            /\ requests'[r] # requests[r])
           => \A k \in Connections :
                (pool[k].open /\ pool[k].owner # r) => pool'[k] = pool[k] ]_vars

RemovedSinceFetch(r) ==
  { row.field_id : row \in
      { ValidFieldValues(0, requests[r].customFields)[i] :
          i \in 1..Len(ValidFieldValues(0, requests[r].customFields)) } }
    \ FieldIds(Db)

\* C28: when a field was removed between the client's fetch of the field list
\* and the processing of its POST or PUT, the customer write still succeeds
\* and no value of the removed field is stored.
C28_RemovedFieldTolerated ==
  [][\A r \in FirstSlot :
       (/\ requests[r].pc = "fetched"
        /\ requests'[r].pc = "idle"
        /\ RemovedSinceFetch(r) # {})
       => /\ last'.status \in {200, 201}
          /\ \A row \in DOMAIN customer_field_values' :
               row.field_id \notin RemovedSinceFetch(r)]_vars

\* C29: under the customers router of part_002, for a customer with stored
\* values GET /api/customers answers 200 and reports exactly one entry per
\* stored value, the same entries as GET /api/customers/id reports.
C29_ListMatchesGet ==
  (/\ last.op = "list"
   /\ routes.customers = "part_002"
   /\ last.id \in CustomerIds(Db)
   /\ StoredFor(last.id) # EmptyBag)
  => /\ last.status = 200
     /\ BagCardinality(last.found.customFields) = BagCardinality(StoredFor(last.id))
     /\ last.found.customFields = GetCustomerVia(Db, "part_002", last.id).customFields

\* C30: the record a successful customer create or update returns contains
\* exactly the custom-field values stored for the customer: the same ids and
\* values, and no entry the server's filter dropped.
C30_ReturnedIsStored ==
  LET
      \* The customFields of the record a successful POST /api/customers or PUT
      \* /api/customers/id answers with: the customFields of the request body.
      ReturnedCustomFields == RowsToBag(last.customFields)
      \* The stored values of customer id as entries of id and value, the id
      \* written as the client writes it.
      StoredEntries(id) ==
        LET rows == DOMAIN StoredFor(id)
            AsEntry(r) == Entry(NumberToString(r.field_id), r.value)
        IN  [ e \in { AsEntry(r) : r \in rows } |->
                CountOf(customer_field_values, { r \in rows : AsEntry(r) = e }) ]
  IN
  (last.op \in {"create", "put"} /\ last.status \in {200, 201})
  => ReturnedCustomFields = StoredEntries(last.id)

====
